---- MODULE Spec2Model ----
(***************************************************************************)
(* Bed / resident occupancy bookkeeping of the Oasis housing application.  *)
(*                                                                         *)
(* The store is the in-memory MemStorage the REST router is bound to       *)
(* (routes.ts imports `storage` from ./storage, which exports              *)
(* `new MemStorage()`).  Every storage method runs to completion without   *)
(* an await, so one REST request is one atomic step of the store.  The     *)
(* client handlers (drag and drop, the bed assignment form, the housing    *)
(* page dialog) issue several requests one after the other; each request   *)
(* is a step of its own and other requests may come in between.            *)
(*                                                                         *)
(* The handlers of ResidentDragDrop and BedAssignment send their requests   *)
(* through apiRequest of lib/queryClient, which takes the url first and    *)
(* the method from a fourth argument no call site passes; the HousingPage  *)
(* dialog calls fetch itself.                                              *)
(***************************************************************************)
EXTENDS Integers, Sequences, FiniteSets, TLC

\* JavaScript's two absent values.  Undefined is also "the field is missing".
\* Both stand where a bed, room or resident id may stand (ids are 1, 2, ...).
Undefined == -1
Null == 0
\* an absent text field (status, paymentStatus)
Absent == "undefined"

\* if (x) on a bed id: undefined and null are falsy, ids are positive numbers.
Truthy(x) == x \notin {Undefined, Null}

BedStatus == {"available", "occupied", "maintenance"}

(***************************************************************************)
(* Bounds of the model.                                                    *)
(***************************************************************************)
\* how many beds POST /api/beds may add
MaxNewBeds == 2
\* how many beds are added where two clients transfer one resident
MaxTransferBeds == 3
\* how many beds were created in a store that one MemStorage call is applied to
MaxStoreBeds == 1
\* how many of the sample residents such a store varies
MaxStoreResidents == 2
\* how many residents POST /api/residents may add
MaxNewResidents == 1
\* requests name the first SampleBedsUsed sample beds and every added bed
SampleBedsUsed == 0
\* requests name the first SampleResidentsUsed sample residents and every added one
SampleResidentsUsed == 2

(***************************************************************************)
(* Sample data of MemStorage.initSampleData.                               *)
(***************************************************************************)
\* status of bed1 .. bed14, in creation order
SampleBedStatus ==
  << "available", "occupied", "occupied", "maintenance", "occupied",
     "available", "available", "occupied", "occupied", "available",
     "occupied", "available", "maintenance", "occupied" >>

\* paymentStatus of resident1 .. resident4
SamplePaymentStatus == << "paid", "partial", "overdue", "paid" >>

\* room1 .. room6
NumSampleRooms == 6
\* initSampleData records two payments
NumSamplePayments == 2

\* initSampleData is not async and does not await: createHouse, createRoom and
\* createBed return a Promise, and `.id` of a Promise is undefined.  So every
\* sample bed is stored with roomId undefined and every sample resident with
\* bedId undefined (createResident then skips its bed update).
PromiseId == Undefined

VARIABLES
  beds,        \* MemStorage.beds: id -> [status, roomId]
  residents,   \* MemStorage.residents: id -> [bedId, paymentStatus]
  rooms,       \* ids of MemStorage.rooms
  bedId,       \* MemStorage.bedId, the next bed id
  residentId,  \* MemStorage.residentId, the next resident id
  payments,    \* MemStorage.payments: id -> residentId, ids from 1 in order of creation
  res,         \* the response to the last REST request
  clients,     \* per browser client: its running handler and the requests it has yet to send
  pre          \* the store when the running handler started

store == << beds, residents, rooms, bedId, residentId, payments >>
vars == << beds, residents, rooms, bedId, residentId, payments, res, clients, pre >>

NumSampleBeds == Len(SampleBedStatus)
NumSampleResidents == Len(SamplePaymentStatus)

\* ids a request may name
ReqBedIds == (1 .. SampleBedsUsed) \cup ((NumSampleBeds + 1) .. (NumSampleBeds + MaxNewBeds))
ReqResidentIds ==
  (1 .. SampleResidentsUsed) \cup ((NumSampleResidents + 1) .. (NumSampleResidents + MaxNewResidents))

\* Map.delete
Remove(f, k) == [x \in DOMAIN f \ {k} |-> f[x]]

(***************************************************************************)
(* MemStorage                                                              *)
(***************************************************************************)
\* updateBed(id, {status}): undefined when the bed is missing, else the merge
updateBed(bs, id, status) ==
  IF id \in DOMAIN bs THEN [bs EXCEPT ![id].status = status] ELSE bs

\* createBed that takes the lowest id no bed has, whatever the counter says
createBed_lowestFree(bs, id, bed) ==
  bs @@ ((CHOOSE i \in 1 .. id : i \notin DOMAIN bs /\ \A j \in 1 .. (i - 1) : j \in DOMAIN bs) :> bed)

\* createBed: id = this.bedId++, the body is stored as given
createBed(bs, id, bed) == bs @@ (id :> bed)

\* deleteBed: this.beds.delete(id)
deleteBed(bs, id) == Remove(bs, id)

\* createResident that stores the resident and leaves the bed as it is
createResidentBeds_noOccupy(bs, resident) == bs

\* createResident, the bed side: mark the bed occupied if bedId is set and the bed exists
createResidentBeds(bs, resident) ==
  IF Truthy(resident.bedId) /\ resident.bedId \in DOMAIN bs
    THEN updateBed(bs, resident.bedId, "occupied")
    ELSE bs

\* updateResident that releases the old bed and never marks the new one
updateResidentBeds_noOccupy(bs, existingResident, resident) ==
  IF resident.bedId # Undefined /\ resident.bedId # existingResident.bedId
       /\ Truthy(existingResident.bedId) /\ existingResident.bedId \in DOMAIN bs
    THEN updateBed(bs, existingResident.bedId, "available")
    ELSE bs

\* updateResident that marks the new bed and never releases the old one
updateResidentBeds_keepOld(bs, existingResident, resident) ==
  IF resident.bedId # Undefined /\ resident.bedId # existingResident.bedId
       /\ Truthy(resident.bedId) /\ resident.bedId \in DOMAIN bs
    THEN updateBed(bs, resident.bedId, "occupied")
    ELSE bs

\* updateResident that handles bed changes for every patch, also one without
\* a bedId or with the bedId the resident has
updateResidentBeds_anyPatch(bs, existingResident, resident) ==
  LET released ==
        IF Truthy(existingResident.bedId) /\ existingResident.bedId \in DOMAIN bs
          THEN updateBed(bs, existingResident.bedId, "available")
          ELSE bs
  IN  IF Truthy(resident.bedId) /\ resident.bedId \in DOMAIN released
        THEN updateBed(released, resident.bedId, "occupied")
        ELSE released

\* updateResident, the bed side ("Handle bed changes")
updateResidentBeds(bs, existingResident, resident) ==
  IF resident.bedId # Undefined /\ resident.bedId # existingResident.bedId
    THEN LET released ==
               IF Truthy(existingResident.bedId) /\ existingResident.bedId \in DOMAIN bs
                 THEN updateBed(bs, existingResident.bedId, "available")
                 ELSE bs
         IN  IF Truthy(resident.bedId) /\ resident.bedId \in DOMAIN released
               THEN updateBed(released, resident.bedId, "occupied")
               ELSE released
    ELSE bs

\* updateResident, the resident side: { ...existingResident, ...resident }
mergeResident(existingResident, resident) ==
  [ bedId |-> IF resident.bedId = Undefined THEN existingResident.bedId ELSE resident.bedId,
    paymentStatus |-> IF resident.paymentStatus = Absent
                        THEN existingResident.paymentStatus
                        ELSE resident.paymentStatus ]

\* deleteResident that leaves the resident's bed as it is
deleteResidentBeds_noRelease(bs, rs, id) == bs

\* deleteResident, the bed side: release the bed the resident holds
deleteResidentBeds(bs, rs, id) ==
  IF id \in DOMAIN rs /\ Truthy(rs[id].bedId) /\ rs[id].bedId \in DOMAIN bs
    THEN updateBed(bs, rs[id].bedId, "available")
    ELSE bs

\* getResidentByBedId: the first resident, in insertion (= id) order, with this bedId
getResidentByBedId(rs, b) ==
  LET holders == {r \in DOMAIN rs : rs[r].bedId = b}
  IN  IF holders = {} THEN Undefined
      ELSE CHOOSE r \in holders : \A q \in holders : r <= q

(***************************************************************************)
(* DatabaseStorage, on the same contents: the rows of beds and residents.  *)
(***************************************************************************)
\* createResident: db.insert(residents).values(resident)
dbCreateResident(bs, rs, id, resident) ==
  [beds |-> bs, residents |-> rs @@ (id :> resident)]

\* updateResident: db.update(residents).set({ ...resident }).where(id)
dbUpdateResident(bs, rs, id, resident) ==
  [beds |-> bs,
   residents |-> IF id \in DOMAIN rs THEN [rs EXCEPT ![id] = mergeResident(@, resident)] ELSE rs]

\* deleteResident: db.delete(residents).where(id)
dbDeleteResident(bs, rs, id) ==
  [beds |-> bs, residents |-> Remove(rs, id)]

(***************************************************************************)
(* Initial store: the constructor runs initSampleData.                     *)
(***************************************************************************)
NoResponse == [status |-> 0]
NoSnapshot == [beds |-> << >>, residents |-> << >>]
IdleClient ==
  [flow |-> "none", r |-> Undefined, t |-> Undefined, queue |-> << >>, sent |-> 0,
   outcome |-> "none", peers |-> {}, seen |-> Absent, from |-> Undefined]
Clients == 1 .. 2

Init ==
  /\ beds = [b \in 1 .. NumSampleBeds |->
               [status |-> SampleBedStatus[b], roomId |-> PromiseId]]
  /\ residents = [r \in 1 .. NumSampleResidents |->
               [bedId |-> PromiseId, paymentStatus |-> SamplePaymentStatus[r]]]
  /\ rooms = 1 .. NumSampleRooms
  /\ bedId = NumSampleBeds + 1
  /\ residentId = NumSampleResidents + 1
  /\ payments = [p \in 1 .. NumSamplePayments |-> PromiseId]
  /\ res = NoResponse
  /\ clients = [c \in Clients |-> IdleClient]
  /\ pre = NoSnapshot

(***************************************************************************)
(* REST routes (routes.ts).  Each sets the store and the response.         *)
(***************************************************************************)
Response(status) == [status |-> status]

\* POST /api/beds: insertBedSchema wants roomId; status is optional
PostBed(roomId, status) ==
  /\ beds' = createBed(beds, bedId, [status |-> status, roomId |-> roomId])
  /\ bedId' = bedId + 1
  /\ res' = Response(201)
  /\ UNCHANGED << residents, rooms, payments, residentId >>

\* PATCH /api/beds/:id with {status}
PatchBed(id, status) ==
  /\ beds' = updateBed(beds, id, status)
  /\ res' = IF id \in DOMAIN beds THEN Response(200) ELSE Response(404)
  /\ UNCHANGED << residents, rooms, payments, bedId, residentId >>

\* DELETE /api/beds/:id
DeleteBed(id) ==
  /\ beds' = deleteBed(beds, id)
  /\ res' = IF id \in DOMAIN beds THEN Response(204) ELSE Response(404)
  /\ UNCHANGED << residents, rooms, payments, bedId, residentId >>

\* POST /api/residents: insertResidentSchema, bedId optional and nullable
PostResident(resident) ==
  /\ residentId < NumSampleResidents + 1 + MaxNewResidents
  /\ residents' = residents @@ (residentId :> resident)
  /\ beds' = createResidentBeds(beds, resident)
  /\ residentId' = residentId + 1
  /\ res' = Response(201)
  /\ UNCHANGED << rooms, payments, bedId >>

\* PATCH /api/residents/:id with the body as sent (not validated)
PatchResident(id, resident) ==
  /\ IF id \in DOMAIN residents
       THEN /\ beds' = updateResidentBeds(beds, residents[id], resident)
            /\ residents' = [residents EXCEPT ![id] = mergeResident(@, resident)]
            /\ res' = Response(200)
       ELSE /\ UNCHANGED << beds, residents >>
            /\ res' = Response(404)
  /\ UNCHANGED << rooms, payments, bedId, residentId >>

\* PATCH /api/residents/:id, the body of the 200 response: res.json(resident),
\* the resident updateResident returns
PatchResidentBody(id, resident) == mergeResident(residents[id], resident)

\* DELETE /api/residents/:id
DeleteResident(id) ==
  /\ beds' = deleteResidentBeds(beds, residents, id)
  /\ residents' = Remove(residents, id)
  /\ res' = IF id \in DOMAIN residents
              THEN Response(204)
              ELSE Response(404)
  /\ UNCHANGED << rooms, payments, bedId, residentId >>

\* createPayment: id = this.paymentId++, then updateResident(residentId,
\* { paymentStatus: 'paid' }) if the resident exists
createPaymentResident == [bedId |-> Undefined, paymentStatus |-> "paid"]

\* POST /api/payments: insertPaymentSchema wants residentId
PostPayment(id) ==
  /\ payments' = Append(payments, id)
  /\ IF id \in DOMAIN residents
       THEN /\ beds' = updateResidentBeds(beds, residents[id], createPaymentResident)
            /\ residents' = [residents EXCEPT ![id] = mergeResident(@, createPaymentResident)]
       ELSE UNCHANGED << beds, residents >>
  /\ res' = Response(201)
  /\ UNCHANGED << rooms, bedId, residentId >>

\* GET /api/stats: beds.length and the beds with status 'occupied'
totalBeds(bs) == Cardinality(DOMAIN bs)
occupiedBeds(bs) == Cardinality({b \in DOMAIN bs : bs[b].status = "occupied"})

\* the occupancy rate with Math.floor in the place of Math.round
occupancyRate_floor(bs) ==
  IF totalBeds(bs) > 0 THEN (100 * occupiedBeds(bs)) \div totalBeds(bs) ELSE 0

\* totalBeds > 0 ? Math.round((occupiedBeds / totalBeds) * 100) : 0.
\* Math.round takes a half up; the double (occupiedBeds / totalBeds) * 100
\* rounds as the exact quotient does for every count of beds up to 39 (at
\* 23 of 40 it is 57.49999999999999).
occupancyRate(bs) ==
  IF totalBeds(bs) > 0
    THEN (200 * occupiedBeds(bs) + totalBeds(bs)) \div (2 * totalBeds(bs))
    ELSE 0

\* GET /api/stats, the fields computed from the beds
GetStats ==
  /\ res' = [status |-> 200,
             totalBeds |-> totalBeds(beds),
             occupiedBeds |-> occupiedBeds(beds),
             occupancyRate |-> occupancyRate(beds)]
  /\ UNCHANGED store

\* GET /api/beds/:id
GetBed(id) ==
  /\ res' = Response(IF id \in DOMAIN beds THEN 200 ELSE 404)
  /\ UNCHANGED store

\* GET /api/residents/:id
GetResident(id) ==
  /\ res' = Response(IF id \in DOMAIN residents THEN 200 ELSE 404)
  /\ UNCHANGED store

(***************************************************************************)
(* Requests from any caller of the REST API.                               *)
(***************************************************************************)
BedIdPatch == {Undefined, Null} \cup ReqBedIds
ResidentPatch == [bedId : BedIdPatch, paymentStatus : {Absent}]
NewResident == [bedId : BedIdPatch, paymentStatus : {"unpaid"}]

ApiPostBed ==
  /\ bedId <= NumSampleBeds + MaxNewBeds
  /\ \E roomId \in {1}, status \in BedStatus \cup {Absent} : PostBed(roomId, status)
ApiPatchBed == \E id \in ReqBedIds, status \in BedStatus : PatchBed(id, status)
ApiDeleteBed == \E id \in ReqBedIds : DeleteBed(id)
ApiPostResident == \E resident \in NewResident : PostResident(resident)
ApiPatchResident == \E id \in ReqResidentIds, resident \in ResidentPatch : PatchResident(id, resident)
ApiDeleteResident == \E id \in ReqResidentIds : DeleteResident(id)

Next ==
  \/ ApiPostBed /\ UNCHANGED << clients, pre >>
  \/ ApiPatchBed /\ UNCHANGED << clients, pre >>
  \/ ApiDeleteBed /\ UNCHANGED << clients, pre >>
  \/ ApiPostResident /\ UNCHANGED << clients, pre >>
  \/ ApiPatchResident /\ UNCHANGED << clients, pre >>
  \/ ApiDeleteResident /\ UNCHANGED << clients, pre >>

Spec == Init /\ [][Next]_vars

(***************************************************************************)
(* Storage reads the clients render from.                                  *)
(***************************************************************************)
\* getBedsWithRooms: the beds whose room exists
getBedsWithRooms(bs, rms) == {b \in DOMAIN bs : bs[b].roomId \in rms}

\* getResidentsWithBeds, for one resident: the id of the attached `bed`, or
\* undefined when the resident is returned without one
attachedBed(bs, rms, resident) ==
  IF Truthy(resident.bedId) /\ resident.bedId \in getBedsWithRooms(bs, rms)
    THEN resident.bedId
    ELSE Undefined

\* MemStorage.getResidentsWithBeds: one entry is pushed for each resident,
\* with the bed or without
getResidentsWithBeds(bs, rms, rs) ==
  {[id |-> r, bed |-> attachedBed(bs, rms, rs[r])] : r \in DOMAIN rs}

\* DatabaseStorage.getResidentsWithBeds: an entry is pushed when the bed and
\* its room are found, or when the resident has no bedId
dbGetResidentsWithBeds(bs, rms, rs) ==
  {[id |-> r, bed |-> attachedBed(bs, rms, rs[r])] :
     r \in {q \in DOMAIN rs : ~Truthy(rs[q].bedId) \/ attachedBed(bs, rms, rs[q]) # Undefined}}

\* residents.find(r => r.bed?.id === targetBed.id && r.id !== residentId)
currentOccupant(bs, rms, rs, t, r) ==
  LET others == {q \in DOMAIN rs \ {r} : attachedBed(bs, rms, rs[q]) = t}
  IN  IF others = {} THEN Undefined
      ELSE CHOOSE q \in others : \A o \in others : q <= o

\* BedAssignment.fetchResidentForBed, run when the selected bed is occupied
currentResident(bs, rs, t) ==
  IF bs[t].status = "occupied" /\ getResidentByBedId(rs, t) # Undefined
    THEN getResidentByBedId(rs, t)
    ELSE Null

(***************************************************************************)
(* Browser clients.  A handler acts on the query data the component was    *)
(* rendered with (staleTime: Infinity, no refetch on its own): a handler   *)
(* step reads it, and the store may change before the handler's requests   *)
(* arrive, which is how stale data shows.  rendered(r, t) is what the      *)
(* handlers read of that data about the resident r and the bed t.          *)
(***************************************************************************)
rendered(r, t) ==
  [ rBedId |-> residents[r].bedId,
    rBed |-> attachedBed(beds, rooms, residents[r]),
    tStatus |-> beds[t].status,
    occupant |-> currentOccupant(beds, rooms, residents, t, r),
    cur |-> currentResident(beds, residents, t) ]

\* the resident cards and the bed cards the user can pick
Listed(r, t) == r \in DOMAIN residents /\ t \in getBedsWithRooms(beds, rooms)

\* a string argument: a literal, or a template with one id at its end
Str(text) == [text |-> text, id |-> Undefined]
Path(text, id) == [text |-> text, id |-> id]

\* request bodies
BedIdBody(b) == [bedId |-> b, status |-> Absent]
StatusBody(status) == [bedId |-> Undefined, status |-> status]
NoBody == [bedId |-> Undefined, status |-> Absent]

\* a call apiRequest(url, p0, p1) with the arguments in the order of the call site
ApiRequestCall(url, p0, p1) == [fn |-> "apiRequest", url |-> url, p0 |-> p0, p1 |-> p1]
\* a call fetch(url, { method, body })
FetchCall(url, method, body) == [fn |-> "fetch", url |-> url, p0 |-> Str(method), p1 |-> body]

\* the other clients with a request still to send: the handlers a handler
\* that starts now runs concurrently with (kept in `peers` until they end)
InFlight(c) == {d \in DOMAIN clients \ {c} : clients[d].queue # << >>}

\* what the handler holds of the data it was called with: targetBed.status
\* (selectedBed.status) and the bedId of the resident, as rendered
seenStatus(t) == IF t \in DOMAIN beds THEN beds[t].status ELSE Absent
fromBed(r) == IF r \in DOMAIN residents THEN residents[r].bedId ELSE Undefined

\* a handler that returns before its first request, with the toast it shows
Return(c, flow, r, t, toast) ==
  clients' = [clients EXCEPT ![c] =
    [flow |-> flow, r |-> r, t |-> t, queue |-> << >>, sent |-> 0, outcome |-> toast,
     peers |-> InFlight(c), seen |-> seenStatus(t), from |-> fromBed(r)]]

\* a handler that goes on to await these requests in turn
Await(c, flow, r, t, requests) ==
  clients' = [clients EXCEPT ![c] =
    [flow |-> flow, r |-> r, t |-> t, queue |-> requests, sent |-> 0, outcome |-> "pending",
     peers |-> InFlight(c), seen |-> seenStatus(t), from |-> fromBed(r)]]

\* handleDrop without its third check
handleDropCheck_noSameBed(v, t) ==
  IF v.tStatus = "maintenance" THEN "Cannot Assign Bed"
  ELSE IF v.occupant # Undefined THEN "Bed Already Occupied"
  ELSE "ok"

\* the checks of ResidentDragDrop.handleDrop, in the order of the code
handleDropCheck(v, t) ==
  IF v.tStatus = "maintenance" THEN "Cannot Assign Bed"
  ELSE IF v.occupant # Undefined THEN "Bed Already Occupied"
  ELSE IF v.rBed = t THEN "No Change"
  ELSE "ok"

\* the requests of ResidentDragDrop.handleDrop once the checks passed
handleDropRequests(v, r, t) ==
  << ApiRequestCall(Path("/api/residents/", r), Str("PATCH"), BedIdBody(t)),
     ApiRequestCall(Path("/api/beds/", t), Str("PATCH"), StatusBody("occupied")) >>
    \o (IF Truthy(v.rBed) /\ v.rBed # t
          THEN << ApiRequestCall(Path("/api/beds/", v.rBed), Str("PATCH"), StatusBody("available")) >>
          ELSE << >>)

\* ResidentDragDrop.handleDrop, up to its first await.  A dragged id that is
\* not among the rendered residents returns at once, without a toast.
HandleDrop(c, r, t) ==
  /\ clients[c].flow = "none"
  /\ t \in getBedsWithRooms(beds, rooms)
  /\ IF r \notin DOMAIN residents
       THEN Return(c, "handleDrop", r, t, "no toast")
       ELSE LET v == rendered(r, t)
            IN  IF handleDropCheck(v, t) # "ok"
                  THEN Return(c, "handleDrop", r, t, handleDropCheck(v, t))
                  ELSE Await(c, "handleDrop", r, t, handleDropRequests(v, r, t))
  /\ UNCHANGED << store, res >>

\* the requests of BedAssignment.onSubmit with a resident selected
onSubmitAssignRequests(r, t) ==
  << ApiRequestCall(Str("PATCH"), Path("/api/residents/", r), BedIdBody(t)),
     ApiRequestCall(Str("PATCH"), Path("/api/beds/", t), StatusBody("occupied")) >>

\* the requests of BedAssignment.onSubmit with no resident selected
onSubmitUnassignRequests(v, t) ==
  (IF Truthy(v.cur)
     THEN << ApiRequestCall(Str("PATCH"), Path("/api/residents/", v.cur), BedIdBody(Null)) >>
     ELSE << >>)
    \o << ApiRequestCall(Str("PATCH"), Path("/api/beds/", t), StatusBody("available")) >>

\* BedAssignment.onSubmit with the resident r selected.  The form is rendered
\* unless the bed is under maintenance; the select offers the residents
\* without a bed and the bed's current resident.
OnSubmitAssign(c, r, t) ==
  /\ clients[c].flow = "none"
  /\ Listed(r, t)
  /\ LET v == rendered(r, t)
     IN  /\ v.tStatus # "maintenance"
         /\ ~Truthy(v.rBedId) \/ r = v.cur
  /\ Await(c, "onSubmit assign", r, t, onSubmitAssignRequests(r, t))
  /\ UNCHANGED << store, res >>

\* BedAssignment.onSubmit with no resident selected ("-- Unassign Bed --")
OnSubmitUnassign(c, r, t) ==
  /\ clients[c].flow = "none"
  /\ Listed(r, t)
  /\ LET v == rendered(r, t)
     IN  /\ v.tStatus # "maintenance"
         /\ r = (IF Truthy(v.cur) THEN v.cur ELSE r)
         /\ Await(c, "onSubmit unassign", r, t, onSubmitUnassignRequests(v, t))
  /\ UNCHANGED << store, res >>

\* the requests of the 'Mark for Maintenance' button
markForMaintenanceRequests(v, t) ==
  << ApiRequestCall(Str("PATCH"), Path("/api/beds/", t), StatusBody("maintenance")),
     ApiRequestCall(Str("PATCH"), Path("/api/residents/", v.cur), BedIdBody(Null)) >>

\* BedAssignment 'Mark for Maintenance', shown for an occupied bed with a current resident
MarkForMaintenance(c, r, t) ==
  /\ clients[c].flow = "none"
  /\ Listed(r, t)
  /\ LET v == rendered(r, t)
     IN  /\ v.tStatus = "occupied"
         /\ r = v.cur
         /\ Await(c, "markForMaintenance", r, t, markForMaintenanceRequests(v, t))
  /\ UNCHANGED << store, res >>

\* BedAssignment 'Mark as Available', shown for a bed under maintenance
MarkAsAvailable(c, t) ==
  /\ clients[c].flow = "none"
  /\ t \in getBedsWithRooms(beds, rooms)
  /\ beds[t].status = "maintenance"
  /\ Await(c, "markAsAvailable", Undefined, t,
           << ApiRequestCall(Str("PATCH"), Path("/api/beds/", t), StatusBody("available")) >>)
  /\ UNCHANGED << store, res >>

\* HousingPage bed assignment dialog: any listed resident, no check
DialogAssign(c, r, t) ==
  /\ clients[c].flow = "none"
  /\ Listed(r, t)
  /\ Await(c, "dialog", r, t, << FetchCall(Path("/api/residents/", r), "PATCH", BedIdBody(t)) >>)
  /\ UNCHANGED << store, res >>

\* the toast after the last request
successToast(flow) ==
  CASE flow = "handleDrop" -> "Bed Assigned"
    [] flow = "onSubmit assign" -> "Success"
    [] flow = "onSubmit unassign" -> "Success"
    [] flow = "markForMaintenance" -> "Success"
    [] flow = "markAsAvailable" -> "Success"
    [] flow = "dialog" -> "Bed Assigned"

\* a url the router has no /api route for: what answers it is mounted
\* outside the router, and the response may be ok or not
NotApi ==
  /\ \E status \in {200, 404} : res' = Response(status)
  /\ UNCHANGED store

\* fetch(url, { method, body }) as the router answers it
Fetch(method, url, body) ==
  CASE url.text = "/api/residents/" /\ method = "PATCH" ->
         PatchResident(url.id, [bedId |-> body.bedId, paymentStatus |-> Absent])
    [] url.text = "/api/residents/" /\ method = "GET" -> GetResident(url.id)
    [] url.text = "/api/beds/" /\ method = "PATCH" -> PatchBed(url.id, body.status)
    [] url.text = "/api/beds/" /\ method = "GET" -> GetBed(url.id)
    [] OTHER -> NotApi

\* apiRequest(url, p0, p1, options) with options undefined: the method is
\* options?.method || 'GET' and the body options?.body
apiRequest(url, p0, p1) == Fetch("GET", url, NoBody)

\* One awaited request of the running handler.  A response that is not ok
\* throws; the catch block shows the failure toast and the remaining
\* requests are not sent.
Send(c) ==
  /\ clients[c].queue # << >>
  /\ LET req == Head(clients[c].queue)
     IN  /\ IF req.fn = "fetch"
              THEN Fetch(req.p0.text, req.url, req.p1)
              ELSE apiRequest(req.url, req.p0, req.p1)
         /\ clients' = [clients EXCEPT ![c] =
              IF res'.status >= 400
                THEN [clients[c] EXCEPT !.queue = << >>, !.outcome = "Failed"]
                ELSE IF Tail(clients[c].queue) = << >>
                  THEN [clients[c] EXCEPT !.queue = << >>, !.sent = @ + 1,
                                          !.outcome = successToast(clients[c].flow)]
                  ELSE [clients[c] EXCEPT !.queue = Tail(clients[c].queue), !.sent = @ + 1]]

\* fetch rejects (network error), before the request reached the server or
\* after the server handled it; the catch block shows the failure toast
SendFails(c) ==
  /\ clients[c].queue # << >>
  /\ LET req == Head(clients[c].queue)
     IN  \/ UNCHANGED << store, res >>
         \/ IF req.fn = "fetch"
              THEN Fetch(req.p0.text, req.url, req.p1)
              ELSE apiRequest(req.url, req.p0, req.p1)
  /\ clients' = [clients EXCEPT ![c] = [clients[c] EXCEPT !.queue = << >>, !.outcome = "Failed"]]

\* the handler is over
Finish(c) ==
  /\ clients[c].flow # "none"
  /\ clients[c].queue = << >>
  /\ clients' = [d \in DOMAIN clients |->
                    IF d = c THEN IdleClient ELSE [clients[d] EXCEPT !.peers = @ \ {c}]]
  /\ UNCHANGED << store, res >>

Snapshot == [beds |-> beds, residents |-> residents]
Running(c) == clients[c].flow # "none"
Done(c) == clients[c].flow # "none" /\ clients[c].queue = << >>

\* what the other users of the application send meanwhile
PostBedOther == bedId <= NumSampleBeds + MaxNewBeds /\ PostBed(1, "available")
PatchBedOther ==
  \E id \in ReqBedIds \cap getBedsWithRooms(beds, rooms), status \in BedStatus :
    PatchBed(id, status)
PatchResidentOther ==
  \E id \in ReqResidentIds \cap DOMAIN residents,
     b \in {Null} \cup (ReqBedIds \cap getBedsWithRooms(beds, rooms)) :
    PatchResident(id, [bedId |-> b, paymentStatus |-> Absent])

(***************************************************************************)
(* SeqSpec: one client whose handlers run without interference: nothing    *)
(* else writes between what a handler reads and its last request.          *)
(***************************************************************************)
SeqNext ==
  \/ ~Running(1) /\ PostBedOther /\ UNCHANGED << clients, pre >>
  \/ ~Running(1) /\ PatchBedOther /\ UNCHANGED << clients, pre >>
  \/ ~Running(1) /\ PatchResidentOther /\ UNCHANGED << clients, pre >>
  \/ \E r \in ReqResidentIds, t \in ReqBedIds : HandleDrop(1, r, t) /\ pre' = Snapshot
  \/ \E r \in ReqResidentIds, t \in ReqBedIds : OnSubmitAssign(1, r, t) /\ pre' = Snapshot
  \/ \E r \in ReqResidentIds, t \in ReqBedIds : OnSubmitUnassign(1, r, t) /\ pre' = Snapshot
  \/ \E r \in ReqResidentIds, t \in ReqBedIds : MarkForMaintenance(1, r, t) /\ pre' = Snapshot
  \/ \E t \in ReqBedIds : MarkAsAvailable(1, t) /\ pre' = Snapshot
  \/ \E r \in ReqResidentIds, t \in ReqBedIds : DialogAssign(1, r, t) /\ pre' = Snapshot
  \/ Send(1) /\ UNCHANGED pre
  \/ SendFails(1) /\ UNCHANGED pre
  \/ Finish(1) /\ pre' = NoSnapshot

SeqSpec == Init /\ [][SeqNext]_vars

(***************************************************************************)
(* RaceSpec: the clients' handlers interleave request by request.          *)
(***************************************************************************)
RaceNext ==
  \/ /\ bedId <= NumSampleBeds + MaxNewBeds
     /\ \E status \in {"available", "maintenance"} : PostBed(1, status)
     /\ UNCHANGED << clients, pre >>
  \/ \E c \in Clients, r \in ReqResidentIds, t \in ReqBedIds : HandleDrop(c, r, t) /\ UNCHANGED pre
  \/ \E c \in Clients, r \in ReqResidentIds, t \in ReqBedIds : OnSubmitAssign(c, r, t) /\ UNCHANGED pre
  \/ \E c \in Clients, r \in ReqResidentIds, t \in ReqBedIds : OnSubmitUnassign(c, r, t) /\ UNCHANGED pre
  \/ \E c \in Clients, r \in ReqResidentIds, t \in ReqBedIds : MarkForMaintenance(c, r, t) /\ UNCHANGED pre
  \/ \E c \in Clients, t \in ReqBedIds : MarkAsAvailable(c, t) /\ UNCHANGED pre
  \/ \E c \in Clients, r \in ReqResidentIds, t \in ReqBedIds : DialogAssign(c, r, t) /\ UNCHANGED pre
  \/ \E c \in Clients : Send(c) /\ UNCHANGED pre
  \/ \E c \in Clients : Finish(c) /\ UNCHANGED pre

RaceSpec == Init /\ [][RaceNext]_vars

(***************************************************************************)
(* StoreSpec: one call of a MemStorage method, through its route, on each  *)
(* of the stores that requests can have left: up to MaxStoreBeds beds      *)
(* created after the sample beds, each still there with some status or     *)
(* deleted, the sample beds all there or all deleted, and the first        *)
(* MaxStoreResidents sample residents each deleted or with some bedId.     *)
(* clients[1] records the call and pre the store it was applied to.        *)
(***************************************************************************)
StoreBedIds == (NumSampleBeds + 1) .. (NumSampleBeds + MaxStoreBeds)
StoreResidentIds == 1 .. MaxStoreResidents

StoreInit ==
  /\ \E n \in 0 .. MaxStoreBeds, k \in {0, NumSampleBeds} :
       \E kept \in SUBSET ((NumSampleBeds + 1) .. (NumSampleBeds + n)) :
         \E status \in [kept -> BedStatus] :
           /\ bedId = NumSampleBeds + 1 + n
           /\ beds = [b \in (1 .. k) \cup kept |->
                        IF b <= NumSampleBeds
                          THEN [status |-> SampleBedStatus[b], roomId |-> PromiseId]
                          ELSE [status |-> status[b], roomId |-> 1]]
  /\ \E live \in SUBSET StoreResidentIds :
       \E held \in [live -> {Undefined} \cup StoreBedIds] :
         residents = [r \in live \cup ((MaxStoreResidents + 1) .. NumSampleResidents) |->
                        [bedId |-> IF r \in live THEN held[r] ELSE PromiseId,
                         paymentStatus |-> SamplePaymentStatus[r]]]
  /\ rooms = 1 .. NumSampleRooms
  /\ residentId = NumSampleResidents + 1
  /\ payments = [p \in 1 .. NumSamplePayments |-> PromiseId]
  /\ res = NoResponse
  /\ clients = [c \in Clients |-> IdleClient]
  /\ pre = NoSnapshot

\* the call is the first one, and is recorded
Called(name, r, t) ==
  /\ clients[1].flow = "none"
  /\ clients' = [clients EXCEPT ![1] = [IdleClient EXCEPT !.flow = name, !.r = r, !.t = t]]
  /\ pre' = Snapshot

StoreNext ==
  \/ \E status \in BedStatus \cup {Absent} :
       PostBed(1, status) /\ Called("createBed", Undefined, bedId)
  \/ \E id \in StoreBedIds : DeleteBed(id) /\ Called("deleteBed", Undefined, id)
  \/ \E b \in {Undefined, Null} \cup StoreBedIds :
       PostResident([bedId |-> b, paymentStatus |-> "unpaid"]) /\ Called("createResident", residentId, b)
  \/ \E id \in StoreResidentIds, b \in {Undefined, Null} \cup StoreBedIds :
       PatchResident(id, [bedId |-> b, paymentStatus |-> Absent]) /\ Called("updateResident", id, b)
  \/ \E id \in StoreResidentIds : DeleteResident(id) /\ Called("deleteResident", id, Undefined)
  \/ \E id \in StoreResidentIds : PostPayment(id) /\ Called("createPayment", id, Undefined)
  \/ GetStats /\ Called("getStats", Undefined, Undefined)

StoreSpec == StoreInit /\ [][StoreNext]_vars

(***************************************************************************)
(* TransferSpec: two clients move the resident 1 between up to             *)
(* MaxTransferBeds beds, by drag and drop or by the dialog.                *)
(***************************************************************************)
TransferBedIds == (NumSampleBeds + 1) .. (NumSampleBeds + MaxTransferBeds)

TransferNext ==
  \/ bedId <= NumSampleBeds + MaxTransferBeds /\ PostBed(1, "available") /\ UNCHANGED << clients, pre >>
  \/ \E c \in Clients, t \in TransferBedIds : HandleDrop(c, 1, t) /\ UNCHANGED pre
  \/ \E c \in Clients, t \in TransferBedIds : DialogAssign(c, 1, t) /\ UNCHANGED pre
  \/ \E c \in Clients : Send(c) /\ UNCHANGED pre
  \/ \E c \in Clients : Finish(c) /\ UNCHANGED pre

TransferSpec == Init /\ [][TransferNext]_vars

(***************************************************************************)
(* Properties of the REST interface (Spec).                                *)
(***************************************************************************)
\* the residents whose bedId is b
holders(b) == {r \in DOMAIN residents : residents[r].bedId = b}

\* C1: at every reachable state, whatever the sequence of REST requests, no
\* two distinct residents have the same non-null bedId.
C1_NoSharedBed ==
  \A r1, r2 \in DOMAIN residents :
    (r1 # r2 /\ Truthy(residents[r1].bedId)) => residents[r1].bedId # residents[r2].bedId

\* C2: from the state initSampleData builds on, a bed has status 'occupied'
\* exactly when one resident references it, and a bed that is 'available' or
\* under 'maintenance' is referenced by no resident.
C2_OccupiedIffOneResident ==
  \A b \in DOMAIN beds :
    IF beds[b].status = "occupied"
      THEN Cardinality(holders(b)) = 1
      ELSE holders(b) = {}

\* C4: PATCH /api/residents/:id with the bedId of an occupied bed that
\* another resident references is rejected with 409 (BedOccupiedByOther) and
\* changes neither a bed nor a resident.
C4_OccupiedBedRejected ==
  [][\A id \in ReqResidentIds, b \in ReqBedIds :
       ( /\ id \in DOMAIN residents
         /\ b \in DOMAIN beds
         /\ beds[b].status = "occupied"
         /\ holders(b) \ {id} # {}
         /\ PatchResident(id, [bedId |-> b, paymentStatus |-> Absent]) )
       => (res'.status = 409 /\ beds' = beds /\ residents' = residents)]_vars

\* C7: PATCH /api/residents/:id with the bedId of a bed under maintenance is
\* rejected with 409 (BedUnavailable): neither the resident's bedId nor the
\* bed's status changes.
C7_MaintenanceBedRejected ==
  [][\A id \in ReqResidentIds, b \in ReqBedIds :
       ( /\ id \in DOMAIN residents
         /\ b \in DOMAIN beds
         /\ beds[b].status = "maintenance"
         /\ PatchResident(id, [bedId |-> b, paymentStatus |-> Absent]) )
       => (res'.status = 409 /\ beds' = beds /\ residents' = residents)]_vars

\* C12: in every reachable state a bed under maintenance is referenced by
\* no resident: the occupant's bedId is cleared no later than the step that
\* puts the bed under maintenance.
C12_MaintenanceBedUnreferenced ==
  \A b \in DOMAIN beds : beds[b].status = "maintenance" => holders(b) = {}

\* C13: no single step takes a bed's status from 'maintenance' to
\* 'occupied'.
C13_NoMaintenanceToOccupied ==
  [][\A b \in DOMAIN beds \cap DOMAIN beds' :
       beds[b].status = "maintenance" => beds'[b].status # "occupied"]_vars

\* the step takes the bed b to or from 'occupied'
occupiedChanged(b) == (beds[b].status = "occupied") # (beds'[b].status = "occupied")

\* C14: a step changes whether a bed is 'occupied' exactly when it changes
\* which residents reference that bed: neither PATCH /api/beds/:id nor
\* updateResident updates one side without the other.
C14_StatusAndBedIdTogether ==
  [][\A b \in DOMAIN beds \cap DOMAIN beds' :
       occupiedChanged(b) <=> (holders(b) # holders(b)')]_vars

\* C15: PATCH /api/residents/:id {bedId} whose id names no resident or
\* whose bedId names no bed is answered 404 and changes nothing: the bedId of
\* a bed that does not exist is not stored.
C15_MissingEntityRejected ==
  [][\A id \in ReqResidentIds, b \in ReqBedIds :
       ( /\ id \notin DOMAIN residents \/ b \notin DOMAIN beds
         /\ PatchResident(id, [bedId |-> b, paymentStatus |-> Absent]) )
       => (res'.status = 404 /\ beds' = beds /\ residents' = residents)]_vars

\* C16: every resident with a bedId references a bed that exists and is
\* 'occupied', also after DELETE /api/beds/:id and PATCH /api/beds/:id.
C16_BedIdReferencesOccupiedBed ==
  \A r \in DOMAIN residents :
    Truthy(residents[r].bedId) =>
      /\ residents[r].bedId \in DOMAIN beds
      /\ beds[residents[r].bedId].status = "occupied"

\* C21: every bed has status 'available' at the moment it is created, by
\* the sample-data initialisation as by POST /api/beds with any body the
\* insert schema accepts.
C21_CreatedBedAvailable ==
  /\ \A b \in DOMAIN beds : beds[b].status = "available"
  /\ [][\A b \in DOMAIN beds' \ DOMAIN beds : beds'[b].status = "available"]_vars

\* the beds a resident record names: its bedId is its only reference to a bed
bedsNamed(resident) == {resident.bedId}

\* C22: a successful assign returns to the caller both the bed the resident
\* held before, if any, and the new bed.
C22_ReturnsPreviousAndNewBed ==
  [][\A id \in ReqResidentIds, b \in ReqBedIds :
       ( /\ id \in DOMAIN residents
         /\ b \in DOMAIN beds
         /\ Truthy(residents[id].bedId) /\ residents[id].bedId # b
         /\ PatchResident(id, [bedId |-> b, paymentStatus |-> Absent])
         /\ res'.status = 200 )
       => {residents[id].bedId, b}
            \subseteq bedsNamed(PatchResidentBody(id, [bedId |-> b, paymentStatus |-> Absent]))]_vars

(***************************************************************************)
(* Properties of one handler run without interference (SeqSpec); pre is    *)
(* the store the handler started from.                                     *)
(***************************************************************************)
flow1 == clients[1].flow
r1 == clients[1].r
t1 == clients[1].t
Succeeded(c) == Done(c) /\ clients[c].outcome = successToast(clients[c].flow)

\* the bed r1 held when the handler started
b1 == pre.residents[r1].bedId

\* the handler transfers r1 from the occupied bed b1 to the available bed t1
Transfer ==
  /\ flow1 \in {"handleDrop", "dialog"}
  /\ clients[1].outcome \in {"pending", "Bed Assigned"}
  /\ Truthy(b1) /\ b1 \in DOMAIN pre.beds /\ b1 # t1
  /\ pre.beds[b1].status = "occupied"
  /\ pre.beds[t1].status = "available"

\* C5: while a handler (handleDrop, or the dialog) transfers r from b1 to b2
\* and after it, in every state between its requests exactly one of b1 and
\* b2 is occupied, and it is the bed r's bedId names: never both, never
\* neither.
C5_TransferNeverBothNorNeither ==
  Transfer =>
    /\ (beds[b1].status = "occupied") # (beds[t1].status = "occupied")
    /\ beds[b1].status = "occupied" => residents[r1].bedId = b1
    /\ beds[t1].status = "occupied" => residents[r1].bedId = t1

\* the dialog's request has moved r1 from b1 to t1
C5_Witness ==
  /\ Transfer
  /\ flow1 = "dialog"
  /\ Succeeded(1)
  /\ residents[r1].bedId = t1
  /\ beds[b1].status = "available"

\* C6: 'Mark for Maintenance' on the bed B1 that R1 occupies ends with B1
\* under maintenance and R1 without a bed.
C6_MaintenanceDisplaces ==
  (flow1 = "markForMaintenance" /\ Succeeded(1)) =>
    (beds[t1].status = "maintenance" /\ residents[r1].bedId = Null)

\* the handler assigns r1, who had no bed, to the available bed t1
Assign ==
  /\ flow1 \in {"handleDrop", "onSubmit assign"}
  /\ Succeeded(1)
  /\ pre.beds[t1].status = "available"
  /\ ~Truthy(pre.residents[r1].bedId)

\* C8: with B1 available and R1 without a bed, assign(R1, B1) by onSubmit
\* or handleDrop leaves B1 occupied and R1.bedId = B1, and every other bed
\* and resident as it was.
C8_AssignAvailableBed ==
  Assign =>
    /\ beds = [pre.beds EXCEPT ![t1].status = "occupied"]
    /\ residents = [pre.residents EXCEPT ![r1].bedId = t1]

\* C9: with R1 on B1 and B2 available, assign(R1, B2) run without
\* interference leaves B1 available, B2 occupied and R1.bedId = B2.
C9_TransferResult ==
  (Transfer /\ Succeeded(1)) =>
    /\ beds[b1].status = "available"
    /\ beds[t1].status = "occupied"
    /\ residents[r1].bedId = t1

\* the handler assigns r1 to t1 again: the state a first assign(r1, t1) leaves
Reassign ==
  /\ flow1 \in {"handleDrop", "onSubmit assign", "dialog"}
  /\ r1 \in DOMAIN pre.residents
  /\ pre.residents[r1].bedId = t1
  /\ pre.beds[t1].status = "occupied"
  /\ \A q \in DOMAIN pre.residents \ {r1} : pre.residents[q].bedId # t1

Unassign ==
  /\ flow1 = "onSubmit unassign"
  /\ Succeeded(1)
  /\ r1 \in DOMAIN pre.residents

\* C11: unassign(r) by onSubmit leaves a resident without a bed and every
\* bed as they were, and otherwise ends with r.bedId null and the bed r held
\* available.
C11_Unassign ==
  Unassign =>
    IF pre.residents[r1].bedId = t1
      THEN residents[r1].bedId = Null /\ beds[t1].status = "available"
      ELSE beds = pre.beds /\ residents = pre.residents

\* a handler is assigning the listed resident r1 to the bed t1
AssignRun ==
  /\ flow1 \in {"handleDrop", "onSubmit assign", "dialog"}
  /\ r1 \in DOMAIN pre.residents
  /\ t1 \in DOMAIN pre.beds

\* the beds once the assignment of r1 to t1 is applied in full
assignedBeds ==
  [b \in DOMAIN pre.beds |->
     [pre.beds[b] EXCEPT !.status = IF b = t1 THEN "occupied"
                                    ELSE IF b = b1 THEN "available" ELSE @]]

\* C19: whichever request of an assignment or transfer fails, also after
\* an earlier one succeeded, the beds and residents are either all as
\* before the handler or all as after the complete assignment; no state in
\* between is ever visible.
C19_AllOrNothing ==
  AssignRun =>
    \/ beds = pre.beds /\ residents = pre.residents
    \/ /\ b1 # t1
       /\ beds = assignedBeds
       /\ residents = [pre.residents EXCEPT ![r1].bedId = t1]

\* a request of the handler failed after an earlier one was answered
C19_Witness ==
  /\ AssignRun
  /\ b1 # t1
  /\ clients[1].outcome = "Failed"
  /\ clients[1].sent >= 1

\* the checks the assign of r1 to t1 fails in the store the handler started from
notFound == r1 \notin DOMAIN pre.residents \/ t1 \notin DOMAIN pre.beds
locked == t1 \in DOMAIN pre.beds /\ pre.beds[t1].status = "maintenance"
conflict == \E q \in DOMAIN pre.residents \ {r1} : pre.residents[q].bedId = t1
noChange == r1 \in DOMAIN pre.residents /\ pre.residents[r1].bedId = t1
failedChecks ==
  (IF notFound THEN {1} ELSE {}) \cup (IF locked THEN {2} ELSE {})
    \cup (IF conflict THEN {3} ELSE {}) \cup (IF noChange THEN {4} ELSE {})

\* what handleDrop shows for the earliest failing check; nothing is shown
\* for a resident that is not found
earliestOutcome ==
  IF notFound THEN "no toast"
  ELSE IF locked THEN "Cannot Assign Bed"
  ELSE IF conflict THEN "Bed Already Occupied"
  ELSE "No Change"

\* C20: an assign that fails more than one of the checks entity existence,
\* maintenance lock, occupancy conflict, no-op reports the outcome of the
\* earliest of them in this order (or the failure of its request), for
\* every resident, target bed status and occupant.
C20_EarliestCheckReported ==
  ( /\ flow1 \in {"handleDrop", "onSubmit assign", "dialog"}
    /\ Done(1)
    /\ Cardinality(failedChecks) >= 2 )
  => clients[1].outcome \in {earliestOutcome, "Failed"}

(***************************************************************************)
(* Properties of handlers that interleave (RaceSpec).                      *)
(***************************************************************************)
\* the handlers of c and d ran at the same time
Concurrent(c, d) == d \in clients[c].peers \/ c \in clients[d].peers

\* c and d each assign a resident of their own to the same bed
SameBedAttempts(c, d) ==
  /\ c # d
  /\ Concurrent(c, d)
  /\ clients[c].flow \in {"handleDrop", "onSubmit assign"}
  /\ clients[d].flow \in {"handleDrop", "onSubmit assign"}
  /\ clients[c].t = clients[d].t
  /\ clients[c].r # clients[d].r

\* C3: of two concurrent assignments of different residents to the same bed,
\* by handleDrop or onSubmit, never both succeed: one of them is told the
\* bed is occupied by another resident.
C3_AtMostOneWins ==
  \A c, d \in Clients :
    SameBedAttempts(c, d) => ~(Succeeded(c) /\ Succeeded(d))

\* c read the bed t as free, the bed has become occupied or locked since,
\* and c has yet to send its first request
StaleRead(c) ==
  /\ clients[c].flow \in {"handleDrop", "onSubmit assign", "dialog"}
  /\ clients[c].queue # << >>
  /\ clients[c].sent = 0
  /\ clients[c].seen = "available"
  /\ clients[c].t \in DOMAIN beds
  /\ beds[clients[c].t].status \in {"occupied", "maintenance"}

\* C17: an assign whose target bed became 'occupied' or 'maintenance'
\* between the handler's read of the cached lists and its request is
\* rejected by that request, and no bed and no resident changes.
C17_StaleAssignRejected ==
  [][\A c \in Clients :
       (StaleRead(c) /\ clients'[c].queue # clients[c].queue)
       => (clients'[c].outcome = "Failed" /\ beds' = beds /\ residents' = residents)]_vars

(***************************************************************************)
(* Properties of two clients moving one resident (TransferSpec).           *)
(***************************************************************************)
\* c and d, at the same time, each moved the same resident from the bed it
\* held to a different available bed, and both reported success
BothTransferred(c, d) ==
  /\ c # d
  /\ Concurrent(c, d)
  /\ clients[c].flow \in {"handleDrop", "dialog"}
  /\ clients[d].flow \in {"handleDrop", "dialog"}
  /\ clients[c].r = clients[d].r
  /\ clients[c].t # clients[d].t
  /\ clients[c].seen = "available" /\ clients[d].seen = "available"
  /\ Truthy(clients[c].from) /\ clients[c].from = clients[d].from
  /\ clients[c].from \notin {clients[c].t, clients[d].t}
  /\ Succeeded(c) /\ Succeeded(d)

\* C18: after two concurrent transfers of the resident r to the different
\* available beds b2 and b3 have both finished, r.bedId is b2 or b3, that
\* bed is 'occupied', and neither the other target nor r's original bed is.
C18_ConcurrentTransfers ==
  \A c, d \in Clients :
    BothTransferred(c, d) =>
      LET r == clients[c].r
          targets == {clients[c].t, clients[d].t}
      IN  /\ residents[r].bedId \in targets
          /\ beds[residents[r].bedId].status = "occupied"
          /\ \A b \in (targets \cup {clients[c].from}) \ {residents[r].bedId} :
                beds[b].status # "occupied"

(***************************************************************************)
(* Properties of one MemStorage call (StoreSpec).                          *)
(***************************************************************************)
\* C23: updateResident with a patch that has no bedId, or the bedId the
\* resident already has, changes no bed; so createPayment for an existing
\* resident sets that resident's paymentStatus to 'paid', adds the payment,
\* and changes nothing else of any resident or bed.
C23_PatchWithoutBedChange ==
  [][/\ \A id \in StoreResidentIds, b \in {Undefined, Null} \cup StoreBedIds :
          ( /\ PatchResident(id, [bedId |-> b, paymentStatus |-> Absent])
            /\ b = Undefined \/ (id \in DOMAIN residents /\ b = residents[id].bedId) )
          => beds' = beds
     /\ \A id \in StoreResidentIds \cap DOMAIN residents :
          PostPayment(id) =>
            /\ beds' = beds
            /\ residents' = [residents EXCEPT ![id].paymentStatus = "paid"]
            /\ payments' = Append(payments, id)]_vars

\* createPayment has marked as paid a resident who holds an existing bed
C23_Witness ==
  /\ flow1 = "createPayment"
  /\ r1 \in DOMAIN pre.residents
  /\ pre.residents[r1].bedId \in DOMAIN pre.beds
  /\ pre.residents[r1].paymentStatus # "paid"
  /\ residents[r1].paymentStatus = "paid"
  /\ residents[r1].bedId = pre.residents[r1].bedId

\* C24: deleteResident on a resident who holds an existing bed b removes
\* the resident and sets b 'available' in the same step, every other bed and
\* resident staying as it was; on an id that names no resident the answer is
\* 404 and nothing changes.
C24_DeleteResidentReleasesBed ==
  [][\A id \in StoreResidentIds :
       DeleteResident(id) =>
         IF id \in DOMAIN residents
           THEN /\ res'.status = 204
                /\ DOMAIN residents' = DOMAIN residents \ {id}
                /\ \A q \in DOMAIN residents' : residents'[q] = residents[q]
                /\ beds' = IF residents[id].bedId \in DOMAIN beds
                             THEN [beds EXCEPT ![residents[id].bedId].status = "available"]
                             ELSE beds
           ELSE res'.status = 404 /\ beds' = beds /\ residents' = residents]_vars

\* deleteResident has removed a resident and released the occupied bed held
C24_Witness ==
  /\ flow1 = "deleteResident"
  /\ r1 \in DOMAIN pre.residents
  /\ pre.residents[r1].bedId \in DOMAIN pre.beds
  /\ pre.beds[pre.residents[r1].bedId].status = "occupied"
  /\ r1 \notin DOMAIN residents
  /\ beds[pre.residents[r1].bedId].status = "available"

\* C25: createResident with the bedId of an existing bed stores the new
\* resident with that bedId and sets that bed 'occupied' in the same step;
\* with no bedId it stores the resident and changes no bed.
C25_CreateResidentOccupiesBed ==
  [][\A b \in {Undefined, Null} \cup StoreBedIds :
       PostResident([bedId |-> b, paymentStatus |-> "unpaid"]) =>
         /\ DOMAIN residents' = DOMAIN residents \cup {residentId}
         /\ residents'[residentId].bedId = b
         /\ \A q \in DOMAIN residents : residents'[q] = residents[q]
         /\ b \in DOMAIN beds => beds' = [beds EXCEPT ![b].status = "occupied"]
         /\ b \in {Undefined, Null} => beds' = beds]_vars

\* createResident has stored a resident on a bed that was available
C25_Witness ==
  /\ flow1 = "createResident"
  /\ t1 \in DOMAIN pre.beds
  /\ pre.beds[t1].status = "available"
  /\ r1 \in DOMAIN residents \ DOMAIN pre.residents
  /\ residents[r1].bedId = t1
  /\ beds[t1].status = "occupied"

\* C26: from the same contents, createResident, updateResident and
\* deleteResident leave the same bed statuses and the same bedIds in
\* MemStorage as in DatabaseStorage.
C26_SameAsDatabaseStorage ==
  [][/\ \A b \in {Undefined, Null} \cup StoreBedIds :
          PostResident([bedId |-> b, paymentStatus |-> "unpaid"]) =>
            [beds |-> beds', residents |-> residents']
              = dbCreateResident(beds, residents, residentId, [bedId |-> b, paymentStatus |-> "unpaid"])
     /\ \A id \in StoreResidentIds, b \in {Undefined, Null} \cup StoreBedIds :
          PatchResident(id, [bedId |-> b, paymentStatus |-> Absent]) =>
            [beds |-> beds', residents |-> residents']
              = dbUpdateResident(beds, residents, id, [bedId |-> b, paymentStatus |-> Absent])
     /\ \A id \in StoreResidentIds :
          DeleteResident(id) =>
            [beds |-> beds', residents |-> residents'] = dbDeleteResident(beds, residents, id)]_vars

\* the list has exactly one entry for every stored resident, with the bed
\* attached exactly when bedId references an existing bed whose room exists
oneEntryEach(list) ==
  /\ {e.id : e \in list} = DOMAIN residents
  /\ \A r \in DOMAIN residents :
       /\ Cardinality({e \in list : e.id = r}) = 1
       /\ \A e \in list :
            e.id = r =>
              ( e.bed # Undefined
                <=> /\ residents[r].bedId \in DOMAIN beds
                    /\ beds[residents[r].bedId].roomId \in rooms )

C28_IdsNeverReused ==
  /\ [](/\ \A b \in DOMAIN beds : b < bedId
        /\ \A r \in DOMAIN residents : r < residentId)
  /\ [][/\ bedId' >= bedId /\ residentId' >= residentId
        /\ \A b \in DOMAIN beds' \ DOMAIN beds : b = bedId /\ bedId' > b
        /\ \A r \in DOMAIN residents' \ DOMAIN residents : r = residentId /\ residentId' > r
        /\ \A p \in DOMAIN payments : p \in DOMAIN payments' /\ payments'[p] = payments[p]]_vars

\* createBed has assigned an id above the id of a bed deleted before
C28_Witness ==
  /\ flow1 = "createBed"
  /\ t1 \in DOMAIN beds \ DOMAIN pre.beds
  /\ \E b \in StoreBedIds : b < t1 /\ b \notin DOMAIN pre.beds
  /\ \A b \in DOMAIN pre.beds : b < t1

\* C29: GET /api/stats reports occupiedBeds <= totalBeds and an integer
\* occupancyRate in 0 .. 100 that is 0 when there are no beds and otherwise
\* 100 * occupiedBeds / totalBeds rounded to the nearest integer.
C29_OccupancyRate ==
  flow1 = "getStats" =>
    /\ res.totalBeds = Cardinality(DOMAIN beds)
    /\ res.occupiedBeds <= res.totalBeds
    /\ res.occupancyRate \in 0 .. 100
    /\ res.totalBeds = 0 => res.occupancyRate = 0
    /\ res.totalBeds > 0 =>
         /\ 2 * (res.occupancyRate * res.totalBeds - 100 * res.occupiedBeds) <= res.totalBeds
         /\ 2 * (100 * res.occupiedBeds - res.occupancyRate * res.totalBeds) <= res.totalBeds

\* GET /api/stats has reported a rate that was rounded up
C29_Witness ==
  /\ flow1 = "getStats"
  /\ res.totalBeds > 0
  /\ res.occupancyRate * res.totalBeds > 100 * res.occupiedBeds

====
